---- MODULE Spec2Model ----
(***************************************************************************)
(* Model of app.py (Dashboard Sites PV, Streamlit + Supabase).             *)
(*                                                                         *)
(* Two specifications:                                                     *)
(*   Spec          the application: sessions running the script top to     *)
(*                 bottom against the process-wide st.cache_data slots     *)
(*                 and the remote sites_mapping table;                     *)
(*   SpecPipeline  the pure part of one script run (client_name join,      *)
(*                 default bound, df_filtre) over bounded inputs.          *)
(*                                                                         *)
(* Columns that no modelled statement reads (code, address,                *)
(* commission_date) are left out of the rows.                              *)
(***************************************************************************)
EXTENDS Integers, Sequences, FiniteSets, TLC

\* ------------------------------------------------------------------ bounds
\* longest site collection fed to the pure pipeline
MaxLen == 2
\* number of successful writes (update / insert) in one behaviour
MaxWrites == 2

\* --------------------------------------------------------------- constants
\* Python None / pandas NaN in a numeric column (ids are >= 1, powers >= 0)
NULL == -1
\* pandas NaN in a column of strings
NA == "<NA>"
\* @st.cache_data(ttl=60) and @st.cache_data(ttl=300)
TTL_SITES == 60
TTL_CLIENTS == 300
\* the fallback in float(df["nominal_power"].max() or 10000)
FALLBACK_MAX == 10000
NON_ASSIGNE == "Non assigne"
TOUS == "Tous"

\* ------------------------------------------------- pandas / Python helpers
\* Series.map(dict): the value under the key, NaN when the key is missing
\* (a None / NaN key is never a key of the dict)
MapDict(key, dict) == IF key \in DOMAIN dict THEN dict[key] ELSE NA

\* (variant: the .fillna("Non assigné") is left out)
FillNaStrLeftOut(x, value) == x

\* Series.fillna(value) on one cell of a string column
FillNaStr(x, value) == IF x = NA THEN value ELSE x

\* Series.fillna(value) on one cell of a numeric column
FillNaNum(x, value) == IF x = NULL THEN value ELSE x

\* a >= b and a <= b on floats: every comparison with NaN is False
GeNum(a, b) == a # NULL /\ b # NULL /\ a >= b
LeNum(a, b) == a # NULL /\ b # NULL /\ a <= b

\* bool(x) of a float: only 0.0 is falsy, NaN is truthy
Truthy(x) == x = NULL \/ x # 0

\* Python's  x or y
PyOr(x, y) == IF Truthy(x) THEN x ELSE y

SetMax(S) == CHOOSE m \in S : \A x \in S : x <= m

\* Series.max(): the largest non-null cell, NaN when every cell is null
ColMax(d) ==
    LET present == {d[i].nominal_power : i \in 1..Len(d)} \ {NULL}
    IN  IF present = {} THEN NULL ELSE SetMax(present)

\* ------------------------------------------------------------ the pipeline
\* df = pd.DataFrame(sites);
\* df["client_name"] = df["client_map_id"].map(clients).fillna("Non assigné")
AssembleDf(sites_in, clients_in) ==
    [i \in 1..Len(sites_in) |->
        [id            |-> sites_in[i].id,
         name          |-> sites_in[i].name,
         nominal_power |-> sites_in[i].nominal_power,
         client_map_id |-> sites_in[i].client_map_id,
         client_name   |-> FillNaStr(MapDict(sites_in[i].client_map_id, clients_in),
                                     NON_ASSIGNE)]]

\* clients_uniques = ["Tous"] + sorted(df["client_name"].dropna().unique())
\* (the options of the selectbox; their order is display only)
ClientsUniques(d) == {TOUS} \cup ({d[i].client_name : i \in 1..Len(d)} \ {NA})

\* value=float(df["nominal_power"].max() or 10000)
DefaultPuissanceMax(d) == PyOr(ColMax(d), FALLBACK_MAX)

\* (variant: the upper bound is exclusive, < instead of <=)
PowerMaskExclusive(row, pmin, pmax) ==
    /\ GeNum(FillNaNum(row.nominal_power, 0), pmin)
    /\ LeNum(FillNaNum(row.nominal_power, 0), pmax)
    /\ FillNaNum(row.nominal_power, 0) # pmax

\* the boolean mask of lines 110-113 on one row
PowerMask(row, pmin, pmax) ==
    /\ GeNum(FillNaNum(row.nominal_power, 0), pmin)
    /\ LeNum(FillNaNum(row.nominal_power, 0), pmax)

\* df_filtre, lines 107-113
DfFiltre(d, fc, pmin, pmax) ==
    LET ClientTest(r) == r.client_name = fc
        PowerTest(r)  == PowerMask(r, pmin, pmax)
        by_client     == IF fc # TOUS THEN SelectSeq(d, ClientTest) ELSE d
    IN  SelectSeq(by_client, PowerTest)


\* ------------------------------------------------------------------ state
VARIABLES
    now,            \* wall clock, seconds
    db,             \* table sites_mapping: a set of rows
    cache_sites,    \* the st.cache_data slot of charger_sites
    cache_clients,  \* the st.cache_data slot of charger_clients
    computing,      \* the session computing charger_sites() for the slot
                    \* (st.cache_data computes a missing value under a
                    \* per-function lock), 0 when none
    pc,             \* per session: where its script run stands
    kind,           \* per session: the interaction that triggered the run, once
                    \* the script has read it (the submit buttons, lines 201, 250)
    sites,          \* per session: the value charger_sites() returned
    clients,        \* per session: the value charger_clients() returned
    inflight,       \* per session: the response of the select being awaited
    outcome,        \* per session: how the last run ended
    add_name,       \* per session: the text submitted as "Nom *" (form_ajout)
    db_version,     \* history: number of successful writes so far
    cleared_ver,    \* history: newest write whose charger_sites.clear() is done
    sites_ver,      \* per session, history: db_version the returned sites reflect
    must_see,       \* per session, history: db_version of the write it just
                    \* made and has not read back yet (0: none)
    pending_clear,  \* per session, history: its successful writes minus its
                    \* charger_sites.clear() calls
    in_sites,       \* pipeline: the site collection
    in_clients,     \* pipeline: the client mapping
    df,             \* pipeline: the assembled frame
    filtre_client,  \* pipeline: the selectbox value
    puissance_min,  \* pipeline: the lower bound
    puissance_max,  \* pipeline: the upper bound
    default_max,    \* pipeline: the value= the upper bound widget is given
    df_filtre,      \* pipeline: the filtered frame
    stage           \* pipeline: position in the run

app_vars == <<now, db, cache_sites, cache_clients, computing, pc, kind, sites, clients,
              inflight, outcome, add_name, db_version, cleared_ver, sites_ver,
              must_see, pending_clear>>
pipe_vars == <<in_sites, in_clients, df, filtre_client, puissance_min,
               puissance_max, default_max, df_filtre, stage>>
vars == <<app_vars, pipe_vars>>

\* concurrent browser sessions sharing the process-wide cache
Sessions == {1, 2}

\* the clock readings a behaviour passes through: they give entries of age
\* 1, 59 (below both ttl), 60 (the sites ttl), 240, 241 and 300 (the clients ttl)
Instants == {0, 59, 60, 300}

\* ------------------------------------------------------------- the Gateway
\* table clients_mapping (the application never writes it)
ClientsTable == {[id |-> 1, name |-> "Acme"]}

NameOrder == <<"", "Alpha", "Beta", "Gamma">>
NameRank(n) == CHOOSE i \in 1..Len(NameOrder) : NameOrder[i] = n

\* .order("name"); rows of equal name in id order
RowBefore(r, q) ==
    \/ NameRank(r.name) < NameRank(q.name)
    \/ NameRank(r.name) = NameRank(q.name) /\ r.id <= q.id

RECURSIVE SortRows(_)
SortRows(S) ==
    IF S = {} THEN <<>>
    ELSE LET first == CHOOSE r \in S : \A q \in S : RowBefore(r, q)
         IN  <<first>> \o SortRows(S \ {first})

\* supabase.table("sites_mapping").select(...).eq("ignore_site", False).order("name")
SelectSites(table) == SortRows({r \in table : r.ignore_site = FALSE})

\* {c["id"]: c["name"] for c in response.data}
SelectClients == [i \in {c.id : c \in ClientsTable} |->
                    (CHOOSE c \in ClientsTable : c.id = i).name]

\* .update(data).eq("id", site_id)
UpdateRow(table, site_id, new_name, new_power) ==
    {IF r.id = site_id
        THEN [r EXCEPT !.name = new_name, !.nominal_power = new_power]
        ELSE r : r \in table}

\* .insert(data): a serial id; ignore_site takes the column default, false
InsertRow(table, row_name, row_power, row_client) ==
    table \cup {[id            |-> SetMax({r.id : r \in table} \cup {0}) + 1,
                 name          |-> row_name,
                 nominal_power |-> row_power,
                 client_map_id |-> row_client,
                 ignore_site   |-> FALSE]}

\* --------------------------------------------------------- the cache layer
NoEntry == [present |-> FALSE, val |-> <<>>, ts |-> 0, ver |-> 0]
Entry(v, t, n) == [present |-> TRUE, val |-> v, ts |-> t, ver |-> n]

\* (variant: an entry is still served when its age equals the ttl)
FreshInclusive(entry, ttl) == entry.present /\ now - entry.ts <= ttl

\* st.cache_data(ttl=...): an entry is served while its age is below the ttl
Fresh(entry, ttl) == entry.present /\ now - entry.ts < ttl

\* what charger_sites.clear() leaves in the slot of charger_sites
ClearedSlot(entry) == NoEntry


\* ------------------------------------------------------------ form inputs
\* what the user may type as "Puissance (kWc)" in form_edit
EditPowers == {75}
\* what the user may type as "Nom *" and "Puissance (kWc)" in form_ajout,
\* and pick as "Client" ("" is the option "-- Aucun --")
AddNames == {"", "Gamma"}
AddPowers == {0}
AddClients == {""}
\* what the user may type as "Puissance max (kWc)" instead of the default
TypedMax == {60}

\* ------------------------------------------------------------------- Init
AlphaRow == [id |-> 1, name |-> "Alpha", nominal_power |-> 50,
             client_map_id |-> 1, ignore_site |-> FALSE]
BetaRow  == [id |-> 2, name |-> "Beta", nominal_power |-> NULL,
             client_map_id |-> NULL, ignore_site |-> FALSE]
IgnoredRow == [id |-> 3, name |-> "Gamma", nominal_power |-> 200,
               client_map_id |-> NULL, ignore_site |-> TRUE]

\* the tables the remote store may hold when the process starts
InitTables == {{IgnoredRow}, {AlphaRow, BetaRow, IgnoredRow}}

PipeIdle ==
    /\ in_sites = <<>>
    /\ in_clients = <<>>
    /\ df = <<>>
    /\ filtre_client = TOUS
    /\ puissance_min = 0
    /\ puissance_max = 0
    /\ default_max = 0
    /\ df_filtre = <<>>
    /\ stage = "off"

InitApp ==
    /\ now = 0
    /\ db \in InitTables
    /\ cache_sites = NoEntry
    /\ cache_clients = NoEntry
    /\ computing = 0
    /\ pc = [s \in Sessions |-> "idle"]
    /\ kind = [s \in Sessions |-> "view"]
    /\ sites = [s \in Sessions |-> <<>>]
    /\ clients = [s \in Sessions |-> <<>>]
    /\ inflight = [s \in Sessions |-> NoEntry]
    /\ outcome = [s \in Sessions |-> "none"]
    /\ add_name = [s \in Sessions |-> ""]
    /\ db_version = 0
    /\ cleared_ver = 0
    /\ sites_ver = [s \in Sessions |-> 0]
    /\ must_see = [s \in Sessions |-> 0]
    /\ pending_clear = [s \in Sessions |-> 0]

Init == InitApp /\ PipeIdle

\* ---------------------------------------------------------------- actions
caches == <<cache_sites, cache_clients, computing>>
locals == <<kind, add_name, sites, clients, sites_ver>>
history == <<db_version, cleared_ver, must_see, pending_clear>>

\* time passes
Tick ==
    /\ \E t \in Instants :
          /\ t > now
          /\ now' = t
    /\ UNCHANGED <<db, caches, pc, locals, inflight, outcome, history, pipe_vars>>

\* a page load, a filter change or a form submission starts one
\* top-to-bottom run of the script
StartRun(s) ==
    /\ pc[s] = "idle"
    /\ pc' = [pc EXCEPT ![s] = "charger_sites"]
    /\ outcome' = [outcome EXCEPT ![s] = "running"]
    /\ kind' = [kind EXCEPT ![s] = "view"]
    /\ add_name' = [add_name EXCEPT ![s] = ""]
    /\ UNCHANGED <<now, db, caches, sites, clients, sites_ver, inflight,
                   history, pipe_vars>>

\* the script run is over: its local names are gone.  k and n record the
\* interaction that had triggered it
EndRun(s, how, k, n) ==
    /\ outcome' = [outcome EXCEPT ![s] = how]
    /\ pc' = [pc EXCEPT ![s] = "idle"]
    /\ kind' = [kind EXCEPT ![s] = k]
    /\ add_name' = [add_name EXCEPT ![s] = n]
    /\ sites' = [sites EXCEPT ![s] = <<>>]
    /\ clients' = [clients EXCEPT ![s] = <<>>]
    /\ sites_ver' = [sites_ver EXCEPT ![s] = 0]
    /\ inflight' = [inflight EXCEPT ![s] = NoEntry]

\* sites = charger_sites(), the slot holds an unexpired entry
ChargerSitesHit(s) ==
    /\ pc[s] = "charger_sites"
    /\ Fresh(cache_sites, TTL_SITES)
    /\ sites' = [sites EXCEPT ![s] = cache_sites.val]
    /\ sites_ver' = [sites_ver EXCEPT ![s] = cache_sites.ver]
    /\ must_see' = [must_see EXCEPT ![s] = 0]
    /\ pc' = [pc EXCEPT ![s] = "charger_clients"]
    /\ UNCHANGED <<now, db, caches, kind, add_name, clients, inflight, outcome,
                   db_version, cleared_ver, pending_clear, pipe_vars>>

\* sites = charger_sites(), no usable entry and nobody computing one: the
\* select is sent to the Gateway
ChargerSitesCall(s) ==
    /\ pc[s] = "charger_sites"
    /\ ~Fresh(cache_sites, TTL_SITES)
    /\ computing = 0
    /\ computing' = s
    /\ inflight' = [inflight EXCEPT ![s] = Entry(SelectSites(db), 0, db_version)]
    /\ pc' = [pc EXCEPT ![s] = "select_sites"]
    /\ UNCHANGED <<now, db, cache_sites, cache_clients, locals, outcome,
                   history, pipe_vars>>

\* the select returns: response.data is stored in the slot and returned
ChargerSitesStore(s) ==
    /\ pc[s] = "select_sites"
    /\ cache_sites' = Entry(inflight[s].val, now, inflight[s].ver)
    /\ computing' = 0
    /\ sites' = [sites EXCEPT ![s] = inflight[s].val]
    /\ sites_ver' = [sites_ver EXCEPT ![s] = inflight[s].ver]
    /\ must_see' = [must_see EXCEPT ![s] = 0]
    /\ inflight' = [inflight EXCEPT ![s] = NoEntry]
    /\ pc' = [pc EXCEPT ![s] = "charger_clients"]
    /\ UNCHANGED <<now, db, cache_clients, kind, add_name, clients, outcome,
                   db_version, cleared_ver, pending_clear, pipe_vars>>

\* the select raises: nothing around lines 71-72 catches it, the exception
\* leaves the script and the run ends there
ChargerSitesFail(s) ==
    /\ pc[s] = "select_sites"
    /\ computing' = 0
    /\ EndRun(s, "uncaught", kind[s], add_name[s])
    /\ UNCHANGED <<now, db, cache_sites, cache_clients, history, pipe_vars>>

\* clients = charger_clients(), the slot holds an unexpired entry
ChargerClientsHit(s) ==
    /\ pc[s] = "charger_clients"
    /\ Fresh(cache_clients, TTL_CLIENTS)
    /\ clients' = [clients EXCEPT ![s] = cache_clients.val]
    /\ pc' = [pc EXCEPT ![s] = "render"]
    /\ UNCHANGED <<now, db, caches, kind, add_name, sites, sites_ver, inflight,
                   outcome, history, pipe_vars>>

\* clients = charger_clients(), no usable entry: the select is sent and its
\* id -> name dict is stored in the slot and returned.  One step:
\* clients_mapping is never written and nothing clears this slot, so no other
\* step can tell the request from the response
ChargerClientsStore(s) ==
    /\ pc[s] = "charger_clients"
    /\ ~Fresh(cache_clients, TTL_CLIENTS)
    /\ cache_clients' = Entry(SelectClients, now, 0)
    /\ clients' = [clients EXCEPT ![s] = SelectClients]
    /\ pc' = [pc EXCEPT ![s] = "render"]
    /\ UNCHANGED <<now, db, cache_sites, computing, kind, add_name, sites,
                   sites_ver, inflight, outcome, history, pipe_vars>>

\* the select raises: uncaught, as for charger_sites
ChargerClientsFail(s) ==
    /\ pc[s] = "charger_clients"
    /\ ~Fresh(cache_clients, TTL_CLIENTS)
    /\ EndRun(s, "uncaught", kind[s], add_name[s])
    /\ UNCHANGED <<now, db, caches, history, pipe_vars>>

\* (variant: the guard of lines 74-76 is left out)
SitesEmptyIgnored(s_sites) == FALSE

\* if not sites: (line 74)
SitesEmpty(s_sites) == s_sites = <<>>

\* st.warning(...); st.stop(): nothing below line 76 is evaluated, whatever
\* the interaction (k, n) that had triggered the run
StopEmpty(s) ==
    /\ pc[s] = "render"
    /\ SitesEmpty(sites[s])
    /\ \E k \in {"view", "edit", "add"}, n \in AddNames :
          EndRun(s, "stopped", k, IF k = "add" THEN n ELSE "")
    /\ UNCHANGED <<now, db, caches, history, pipe_vars>>

\* the filters the sidebar may hold in a run over frame d
FilterChoices(d) ==
    {<<fc, 0, pmax>> : fc \in ClientsUniques(d),
                       pmax \in {DefaultPuissanceMax(d)} \cup TypedMax}

\* the rows form_edit can be opened on: df_filtre.to_dict('records')
SitesOptions(s) ==
    LET d == AssembleDf(sites[s], clients[s])
    IN  UNION {{DfFiltre(d, f[1], f[2], f[3])[i] :
                   i \in 1..Len(DfFiltre(d, f[1], f[2], f[3]))} :
               f \in FilterChoices(d)}

\* no form was submitted, or form_edit is not offered (no row passes the
\* filters): the three tabs are drawn and the script reaches its last line
RenderOnly(s) ==
    /\ pc[s] = "render"
    /\ ~SitesEmpty(sites[s])
    /\ \/ EndRun(s, "done", "view", "")
       \/ /\ \E f \in FilterChoices(AssembleDf(sites[s], clients[s])) :
                DfFiltre(AssembleDf(sites[s], clients[s]), f[1], f[2], f[3]) = <<>>
          /\ EndRun(s, "done", "edit", "")
    /\ UNCHANGED <<now, db, caches, history, pipe_vars>>

\* the Gateway accepted a write: the next statement is charger_sites.clear()
WriteDone(s, k, n) ==
    /\ db_version < MaxWrites
    /\ db_version' = db_version + 1
    /\ must_see' = [must_see EXCEPT ![s] = db_version + 1]
    /\ pending_clear' = [pending_clear EXCEPT ![s] = @ + 1]
    /\ pc' = [pc EXCEPT ![s] = "clear"]
    /\ kind' = [kind EXCEPT ![s] = k]
    /\ add_name' = [add_name EXCEPT ![s] = n]
    /\ UNCHANGED <<now, caches, sites, clients, sites_ver, inflight, outcome,
                   cleared_ver, pipe_vars>>

\* form_edit submitted, sauvegarder_site: the update succeeds (line 53)
SauvegarderOk(s) ==
    /\ pc[s] = "render"
    /\ ~SitesEmpty(sites[s])
    /\ \E site \in SitesOptions(s), new_power \in EditPowers :
          db' = UpdateRow(db, site.id, site.name, new_power)
    /\ WriteDone(s, "edit", "")

\* form_edit submitted, the update raises: except -> st.error (lines 215-216),
\* then the rest of the script is drawn
SauvegarderFail(s) ==
    /\ pc[s] = "render"
    /\ ~SitesEmpty(sites[s])
    /\ SitesOptions(s) # {}
    /\ EndRun(s, "update_error", "edit", "")
    /\ UNCHANGED <<now, db, caches, history, pipe_vars>>

\* (variant: the check of line 253 is left out)
NameMissingIgnored(n) == FALSE

\* if not add_name: (line 253)
NameMissing(n) == n = ""

\* form_ajout submitted without a name: st.error("Le nom est obligatoire.")
ValidationError(s) ==
    /\ pc[s] = "render"
    /\ ~SitesEmpty(sites[s])
    /\ \E n \in AddNames :
          /\ NameMissing(n)
          /\ EndRun(s, "validation_error", "add", n)
    /\ UNCHANGED <<now, db, caches, history, pipe_vars>>

\* str(k) of a client id, and int(text) back
IdText == <<"1", "2">>
IntOfText(c) == CHOOSE k \in 1..Len(IdText) : IdText[k] = c

\* int(add_client) if add_client else None
ClientOrNone(c) == IF c = "" THEN NULL ELSE IntOfText(c)

\* add_power or None
PowerOrNone(p) == IF Truthy(p) THEN p ELSE NULL

\* form_ajout submitted, ajouter_site: the insert succeeds (line 60)
AjouterOk(s) ==
    /\ pc[s] = "render"
    /\ ~SitesEmpty(sites[s])
    /\ \E n \in AddNames, add_power \in AddPowers, add_client \in AddClients :
          /\ ~NameMissing(n)
          /\ db' = InsertRow(db, n, PowerOrNone(add_power),
                             ClientOrNone(add_client))
          /\ WriteDone(s, "add", n)

\* form_ajout submitted, the insert raises: except -> st.error (lines 268-269)
AjouterFail(s) ==
    /\ pc[s] = "render"
    /\ ~SitesEmpty(sites[s])
    /\ \E n \in AddNames :
          /\ ~NameMissing(n)
          /\ EndRun(s, "insert_error", "add", n)
    /\ UNCHANGED <<now, db, caches, history, pipe_vars>>

\* (variant: st.cache_data.clear(), which empties every cached function)
ClearAllAndRerun(s) ==
    /\ pc[s] = "clear"
    /\ cache_sites' = ClearedSlot(cache_sites)
    /\ cache_clients' = NoEntry
    /\ pending_clear' = [pending_clear EXCEPT ![s] = @ - 1]
    /\ cleared_ver' = IF must_see[s] > cleared_ver THEN must_see[s]
                      ELSE cleared_ver
    /\ pc' = [pc EXCEPT ![s] = "charger_sites"]
    /\ kind' = [kind EXCEPT ![s] = "view"]
    /\ add_name' = [add_name EXCEPT ![s] = ""]
    /\ sites' = [sites EXCEPT ![s] = <<>>]
    /\ clients' = [clients EXCEPT ![s] = <<>>]
    /\ sites_ver' = [sites_ver EXCEPT ![s] = 0]
    /\ UNCHANGED <<now, db, computing, inflight, outcome, db_version,
                   must_see, pipe_vars>>

\* charger_sites.clear() after the write, then st.success and st.rerun():
\* the script starts over, as a run no form triggered
ClearAndRerun(s) ==
    /\ pc[s] = "clear"
    /\ cache_sites' = ClearedSlot(cache_sites)
    /\ pending_clear' = [pending_clear EXCEPT ![s] = @ - 1]
    /\ cleared_ver' = IF must_see[s] > cleared_ver THEN must_see[s]
                      ELSE cleared_ver
    /\ pc' = [pc EXCEPT ![s] = "charger_sites"]
    /\ kind' = [kind EXCEPT ![s] = "view"]
    /\ add_name' = [add_name EXCEPT ![s] = ""]
    /\ sites' = [sites EXCEPT ![s] = <<>>]
    /\ clients' = [clients EXCEPT ![s] = <<>>]
    /\ sites_ver' = [sites_ver EXCEPT ![s] = 0]
    /\ UNCHANGED <<now, db, cache_clients, computing, inflight, outcome,
                   db_version, must_see, pipe_vars>>

Next ==
    \/ Tick
    \/ \E s \in Sessions :
          \/ StartRun(s)
          \/ ChargerSitesHit(s)
          \/ ChargerSitesCall(s)
          \/ ChargerSitesStore(s)
          \/ ChargerSitesFail(s)
          \/ ChargerClientsHit(s)
          \/ ChargerClientsStore(s)
          \/ ChargerClientsFail(s)
          \/ StopEmpty(s)
          \/ RenderOnly(s)
          \/ SauvegarderOk(s)
          \/ SauvegarderFail(s)
          \/ ValidationError(s)
          \/ AjouterOk(s)
          \/ AjouterFail(s)
          \/ ClearAndRerun(s)

Spec == Init /\ [][Next]_vars


\* ----------------------------------------------------- the pipeline alone
\* One script run below line 76, on any non-empty sites and any clients
\* the two reads may have returned.
SitePowers == {NULL, 0, 50}
SiteClients == {NULL, 1, 2}
ClientMaps == {<<>>, (1 :> "Acme"), (1 :> "Acme" @@ 2 :> "Bolt")}
\* what the user may type as "Puissance min (kWc)" / "Puissance max (kWc)"
TypedMins == {0, 50, 60}
TypedMaxs == {0, 50}

\* the i-th site of a collection whose cells are given by cells[i]
SiteRow(i, cell) ==
    [id            |-> i,
     name          |-> NameOrder[((i - 1) % 3) + 2],
     nominal_power |-> cell[1],
     client_map_id |-> cell[2],
     ignore_site   |-> FALSE]

SiteCollections ==
    UNION {{[i \in 1..n |-> SiteRow(i, cells[i])] :
               cells \in [1..n -> SitePowers \X SiteClients]} :
           n \in 1..MaxLen}

InitPipeline ==
    /\ InitApp
    /\ db = {IgnoredRow}
    /\ in_sites \in SiteCollections
    /\ in_clients \in ClientMaps
    /\ df = <<>>
    /\ filtre_client = TOUS
    /\ puissance_min = 0
    /\ puissance_max = 0
    /\ default_max = 0
    /\ df_filtre = <<>>
    /\ stage = "read"

\* lines 79-80
Assemble ==
    /\ stage = "read"
    /\ df' = AssembleDf(in_sites, in_clients)
    /\ stage' = "assembled"
    /\ UNCHANGED <<in_sites, in_clients, filtre_client, puissance_min,
                   puissance_max, default_max, df_filtre, app_vars>>

\* lines 89-104, the user leaves "Puissance max (kWc)" at its default
SidebarDefault ==
    /\ stage = "assembled"
    /\ filtre_client' \in ClientsUniques(df)
    /\ puissance_min' \in TypedMins
    /\ default_max' = DefaultPuissanceMax(df)
    /\ puissance_max' = default_max'
    /\ stage' = "sidebar"
    /\ UNCHANGED <<in_sites, in_clients, df, df_filtre, app_vars>>

\* lines 89-104, the user has typed an upper bound
SidebarTyped ==
    /\ stage = "assembled"
    /\ filtre_client' \in ClientsUniques(df)
    /\ puissance_min' \in TypedMins
    /\ default_max' = DefaultPuissanceMax(df)
    /\ puissance_max' \in TypedMaxs
    /\ stage' = "sidebar"
    /\ UNCHANGED <<in_sites, in_clients, df, df_filtre, app_vars>>

\* lines 107-113
AppliquerFiltres ==
    /\ stage = "sidebar"
    /\ df_filtre' = DfFiltre(df, filtre_client, puissance_min, puissance_max)
    /\ stage' = "filtered"
    /\ UNCHANGED <<in_sites, in_clients, df, filtre_client, puissance_min,
                   puissance_max, default_max, app_vars>>

NextPipeline ==
    \/ Assemble
    \/ SidebarDefault
    \/ SidebarTyped
    \/ AppliquerFiltres

SpecPipeline == InitPipeline /\ [][NextPipeline]_vars


\* ================================================================ properties

\* ---- the pipeline (SpecPipeline)

\* nominal_power, or 0 when it is absent
EffectivePower(v) == IF v.nominal_power = NULL THEN 0 ELSE v.nominal_power

\* the rows of df the filter in force must keep
KeptIndexes ==
    {i \in 1..Len(df) :
        /\ filtre_client = TOUS \/ df[i].client_name = filtre_client
        /\ puissance_min <= EffectivePower(df[i])
        /\ EffectivePower(df[i]) <= puissance_max}

\* C4: for every frame and every filter (selector, min, max) with numeric
\* bounds, df_filtre is the order-preserving subsequence of df made of
\* exactly the rows v with (selector = "Tous" or v.client_name = selector)
\* and min <= effective_power(v) <= max; it is empty when min > max.
C4_FilterIsExactSubsequence ==
    (stage = "filtered" /\ puissance_max # NULL) =>
        /\ \E pick \in [1..Len(df_filtre) -> 1..Len(df)] :
              /\ \A j, k \in 1..Len(df_filtre) : j < k => pick[j] < pick[k]
              /\ {pick[j] : j \in 1..Len(df_filtre)} = KeptIndexes
              /\ \A j \in 1..Len(df_filtre) : df_filtre[j] = df[pick[j]]
        /\ puissance_min > puissance_max => df_filtre = <<>>

\* a client selector drops the first of two rows and keeps the second, whose
\* power is absent and counts as 0
C4_Witness ==
    /\ stage = "filtered"
    /\ filtre_client # TOUS
    /\ puissance_max = 50
    /\ Len(df) = 2
    /\ Len(df_filtre) = 1
    /\ df_filtre[1] = df[2]
    /\ df[2].nominal_power = NULL

\* C5: the assembled frame has one row per site, in the same order, and each
\* client_name is never null: the mapped name when client_map_id is a key of
\* clients, "Non assigné" when it is null or is no key.
C5_JoinTotal ==
    stage # "read" =>
        /\ Len(df) = Len(in_sites)
        /\ \A i \in 1..Len(df) :
              /\ df[i].id = in_sites[i].id
              /\ df[i].name = in_sites[i].name
              /\ df[i].nominal_power = in_sites[i].nominal_power
              /\ df[i].client_map_id = in_sites[i].client_map_id
              /\ df[i].client_name # NA
              /\ in_sites[i].client_map_id \in DOMAIN in_clients
                    => df[i].client_name = in_clients[in_sites[i].client_map_id]
              /\ in_sites[i].client_map_id \notin DOMAIN in_clients
                    => df[i].client_name = NON_ASSIGNE

\* one site resolves to "Acme", another carries an id that is no key
C5_Witness ==
    /\ stage = "assembled"
    /\ \E i, j \in 1..Len(df) :
          /\ df[i].client_name = "Acme"
          /\ df[j].client_map_id = 2
          /\ 2 \notin DOMAIN in_clients
          /\ df[j].client_name = NON_ASSIGNE

\* C9: the default upper bound is the maximum nominal_power of the unfiltered
\* collection when one exists and 10000 when every nominal_power is null;
\* with selector "Tous", min 0 and that default every site passes the filter.
C9_DefaultMaxCoversAll ==
    stage \in {"sidebar", "filtered"} =>
        LET present == {in_sites[i].nominal_power : i \in 1..Len(in_sites)} \ {NULL}
        IN  /\ default_max = IF present # {} THEN SetMax(present) ELSE FALLBACK_MAX
            /\ ( /\ stage = "filtered"
                 /\ filtre_client = TOUS
                 /\ puissance_min = 0
                 /\ puissance_max = default_max ) => df_filtre = df

\* ---- the application (Spec)

\* session s has just got the value of charger_sites()
SitesReturned(s) ==
    /\ pc[s] \in {"charger_sites", "select_sites"}
    /\ pc'[s] = "charger_clients"

\* what one step of a cached read by session s must do (used by C1)
C1_ReadStep(s) ==
    /\ (pc[s] = "charger_sites" /\ pc'[s] # pc[s]) =>
          IF cache_sites.present /\ now - cache_sites.ts < TTL_SITES
          THEN /\ pc'[s] = "charger_clients"
               /\ inflight' = inflight
               /\ sites'[s] = cache_sites.val
               /\ cache_sites' = cache_sites
          ELSE /\ pc'[s] = "select_sites"
               /\ inflight'[s].present
               /\ inflight'[s].val = SortRows({r \in db : ~r.ignore_site})
    /\ (pc[s] = "select_sites" /\ pc'[s] = "charger_clients") =>
          /\ sites'[s] = inflight[s].val
          /\ cache_sites'.present
          /\ cache_sites'.val = inflight[s].val
          /\ cache_sites'.ts = now
    /\ (pc[s] = "charger_clients" /\ pc'[s] = "render") =>
          IF cache_clients.present /\ now - cache_clients.ts < TTL_CLIENTS
          THEN /\ clients'[s] = cache_clients.val
               /\ cache_clients' = cache_clients
          ELSE /\ cache_clients'.present
               /\ cache_clients'.val = clients'[s]
               /\ cache_clients'.ts = now
               /\ DOMAIN clients'[s] = {c.id : c \in ClientsTable}

\* C1: a read made while the entry's age is below the ttl (60 s for
\* charger_sites, 300 s for charger_clients) sends nothing to the Gateway and
\* returns the stored value; a read that finds the entry absent or of age
\* >= ttl sends one select, and its response is stored with the time of the
\* store and returned.
C1_TtlReads == [][\A s \in Sessions : C1_ReadStep(s)]_vars

\* an entry of age exactly 60 is being refetched while the clients entry,
\* older still, was served from its slot
C1_Witness ==
    \E s \in Sessions :
        /\ pc[s] = "select_sites"
        /\ cache_sites.present
        /\ now - cache_sites.ts = TTL_SITES
        /\ cache_clients.present
        /\ now - cache_clients.ts >= TTL_SITES

\* C2: after a successful update or insert, the next charger_sites() of the
\* session that wrote does not return a collection read before that write,
\* whatever ttl the old entry had left.
C2_NextReadReflectsWrite ==
    [][\A s \in Sessions :
          (SitesReturned(s) /\ must_see[s] > 0) => sites_ver'[s] >= must_see[s]]_vars

\* C3: under any interleaving of sessions, charger_sites() never returns an
\* expired entry, nor a collection read before a write whose
\* charger_sites.clear() has completed.
C3_NoExpiredNoInvalidatedRead ==
    [][\A s \in Sessions :
          SitesReturned(s) =>
              /\ sites_ver'[s] >= cleared_ver
              /\ pc[s] = "charger_sites" => now - cache_sites.ts < TTL_SITES]_vars

\* a session owes one clear() exactly while it stands between its write and
\* its clear() (used by C6)
C6_Counts ==
    \A s \in Sessions : pending_clear[s] = IF pc[s] = "clear" THEN 1 ELSE 0

\* a write leads to the clear(), the clear() empties the sites slot only, and
\* nothing else empties it (used by C6)
C6_ClearStep(s) ==
    /\ (pc[s] = "render" /\ pc'[s] # "render" /\ db_version' # db_version) =>
          /\ pc'[s] = "clear"
          /\ cache_sites' = cache_sites
    /\ (pc[s] = "clear" /\ pc'[s] # "clear") =>
          /\ ~cache_sites'.present
          /\ cache_clients' = cache_clients
          /\ pc'[s] = "charger_sites"
    /\ (pc[s] # "clear" /\ cache_sites.present /\ ~cache_sites'.present) =>
          \E o \in Sessions : pc[o] = "clear" /\ pc'[o] # "clear"

\* C6: charger_sites.clear() runs exactly once per successful write, right
\* after it and before the session reads again, and leaves the slot of
\* charger_clients as it was.
C6_InvalidateOncePerWrite ==
    [](C6_Counts) /\ [][\A s \in Sessions : C6_ClearStep(s)]_vars

\* a write has been invalidated while the clients entry stayed in its slot
C6_Witness ==
    /\ cleared_ver = 1
    /\ ~cache_sites.present
    /\ cache_clients.present
    /\ \E s \in Sessions : pc[s] = "charger_sites" /\ must_see[s] = 1

\* C7: every Gateway failure, of a read or of a write, is caught where the
\* call is made and shown as a message; the run ends, nothing is retried and
\* the cache slots stay as they were.
C7_FailuresCaught ==
    [][\A s \in Sessions :
          (outcome[s] = "running"
             /\ outcome'[s] \in {"uncaught", "update_error", "insert_error"}) =>
              /\ outcome'[s] \in {"update_error", "insert_error"}
              /\ pc'[s] = "idle"
              /\ cache_sites' = cache_sites
              /\ cache_clients' = cache_clients
              /\ db' = db]_vars

\* the validation error is only ever reported for an empty name, and an insert
\* is only ever sent with a name (used by C8)
C8_Names ==
    \A s \in Sessions :
        /\ outcome[s] = "validation_error" => kind[s] = "add" /\ add_name[s] = ""
        /\ (kind[s] = "add" /\ (pc[s] = "clear" \/ outcome[s] = "insert_error"))
              => add_name[s] # ""

\* the step a submission of form_ajout with an empty name takes (used by C8)
C8_Step(s) ==
    (pc[s] = "render" /\ sites[s] # <<>> /\ pc'[s] # "render"
        /\ kind'[s] = "add" /\ add_name'[s] = "") =>
        /\ outcome'[s] = "validation_error"
        /\ pc'[s] = "idle"
        /\ db' = db
        /\ db_version' = db_version
        /\ cache_sites' = cache_sites
        /\ cache_clients' = cache_clients
        /\ pending_clear' = pending_clear

\* C8: form_ajout submitted with an empty name reports the validation error,
\* sends no insert and clears nothing; an insert is sent only with a name.
C8_EmptyNameNoInsert ==
    [](C8_Names) /\ [][\A s \in Sessions : C8_Step(s)]_vars

\* the validation error was reported and the sites entry is still in its slot
C8_Witness ==
    \E s \in Sessions :
        /\ outcome[s] = "validation_error"
        /\ kind[s] = "add"
        /\ add_name[s] = ""
        /\ cache_sites.present
        /\ db_version = 0

\* the step a run takes once charger_sites() has returned an empty collection
\* (used by C10)
C10_Step(s) ==
    (pc[s] = "render" /\ sites[s] = <<>> /\ pc'[s] # "render") =>
        /\ outcome'[s] = "stopped"
        /\ pc'[s] = "idle"
        /\ db' = db
        /\ db_version' = db_version
        /\ cache_sites' = cache_sites
        /\ cache_clients' = cache_clients
        /\ pending_clear' = pending_clear

\* C10: a run whose charger_sites() returned an empty collection stops, as
\* information and not as an error, before assembly, filters and forms: it
\* sends no update and no insert and clears nothing.
C10_EmptySitesStops == [][\A s \in Sessions : C10_Step(s)]_vars

\* form_ajout was submitted with a name, and the run stopped on empty sites
C10_Witness ==
    \E s \in Sessions :
        /\ outcome[s] = "stopped"
        /\ kind[s] = "add"
        /\ add_name[s] = "Gamma"
        /\ db_version = 0

====
